---- MODULE Spec2Model ----
(***************************************************************************)
(* The wasm plugin manager, plugin wrapper and plugin instance pool of     *)
(* mosn (pkg/wasm): wasmMangerImpl, pluginWrapper and wasmPluginImpl.      *)
(* Callers are threads; every step of a thread is one access to shared     *)
(* memory (a sync.Map call, a section under a lock, an atomic add, or a    *)
(* plain read or write the code makes outside any lock).                   *)
(***************************************************************************)
EXTENDS Integers, Sequences, FiniteSets, TLC

\* ------------------------------------------------------------------ bounds
\* plugin objects the run builds
MaxPlugins == 3
\* instances the engine makes from one module
MaxInstances == 4
\* calls the callers of the manager make in one run
MaxCalls == 3
\* calls the callers of one plugin's pool make in one run
MaxPoolCalls == 4
\* observers registered with one wrapper
MaxHandlers == 2

\* ------------------------------------------------------- program constants
\* runtime.NumCPU() of the host
NumCPU == 2
\* the largest value of instanceWrappersIdx and occupy (int32)
MaxInt32 == 2147483647

Threads == {1, 2}

\* the errors of plugin.go and of the manager
ErrEngineNotFound == "fail to get wasm engine"
ErrWasmBytesLoad == "fail to load wasm bytes"
ErrInstanceCreate == "fail to create wasm instance"
ErrModuleCreate == "fail to create wasm module"
ErrEmptyPluginName == "wasm config without plugin name"
ErrPluginNotFound == "wasm plugin not found"
NoError == ""

\* ------------------------------------------------------------------ inputs
\* v2.WasmVmConfig values the callers pass; VmConfig is a pointer, modelled
\* as a sequence of length 0 (nil) or 1.
VmOf(e, p, u, c, m) == [Engine |-> e, Path |-> p, Url |-> u, Cpu |-> c, Mem |-> m]

BaseVm == VmOf("e1", "p1", "", 0, 0)

ConfigOf(n, k, v) == [PluginName |-> n, InstanceNum |-> k, VmConfig |-> v]

PluginNames == {"", "a", "b"}

\* The configs the callers pass: a base config of plugin "a", the configs that
\* differ from it in one field (the instance count, cpu, mem, the engine, the
\* path, the url, an engine that is not registered, no VmConfig at all), one
\* that differs in two, and configs with another name and with no name.
Configs ==
  { ConfigOf("a", 1, <<BaseVm>>),
    ConfigOf("a", 0, <<BaseVm>>),
    ConfigOf("a", 3, <<BaseVm>>),
    ConfigOf("a", 1, <<VmOf("e1", "p1", "", 1, 0)>>),
    ConfigOf("a", 1, <<VmOf("e1", "p1", "", 0, 1)>>),
    ConfigOf("a", 1, <<VmOf("e2", "p1", "", 0, 0)>>),
    ConfigOf("a", 1, <<VmOf("e1", "p2", "", 0, 0)>>),
    ConfigOf("a", 1, <<VmOf("e1", "p1", "u1", 0, 0)>>),
    ConfigOf("a", 1, <<VmOf("e0", "p1", "", 0, 0)>>),
    ConfigOf("a", 1, <<>>),
    ConfigOf("a", 3, <<VmOf("e2", "p1", "", 0, 0)>>),
    ConfigOf("b", 1, <<BaseVm>>),
    ConfigOf("", 1, <<BaseVm>>) }

\* the configs the callers pass to a wrapper's Update
UpdateConfigs ==
  { ConfigOf("a", 1, <<BaseVm>>),
    ConfigOf("a", 3, <<BaseVm>>),
    ConfigOf("a", 1, <<VmOf("e2", "p1", "", 0, 0)>>),
    ConfigOf("b", 1, <<BaseVm>>),
    ConfigOf("", 1, <<BaseVm>>) }

\* the zero value of v2.WasmPluginConfig
NoConfig == ConfigOf("", 0, <<>>)

\* 0 is a nil types.WasmPluginHandler; the k-th observer registered with a
\* wrapper is observer k
NilHandler == 0

\* targets of EnsureInstanceNum calls
EnsureNums == {0, 1, 2, 3}

\* cursor values a plugin can have reached when a pool scenario starts
CursorStarts == {0, MaxInt32 - 1}

\* --------------------------------------------------------- Go arithmetic
MinInt32 == (0 - MaxInt32) - 1

\* int32 x + d for d = 1 or d = -1: the sum wraps (two's complement)
Add32(x, d) ==
  IF d = 1 /\ x = MaxInt32 THEN MinInt32
  ELSE IF d = -1 /\ x = MinInt32 THEN MaxInt32
  ELSE x + d

\* Go's a % b for b > 0 truncates toward zero: the result has the sign of a
GoMod(a, b) ==
  IF a >= 0 \/ a % b = 0 THEN a % b ELSE (a % b) - b

Zeros(n) == [i \in 1..n |-> 0]

\* ------------------------------------------------------------ the engine
\* GetWasmEngine: the engines registered with the process
RegisteredEngines == {"e1", "e2"}

GetWasmEngine(name) == name \in RegisteredEngines

VARIABLES
  pluginMap,   \* wasmMangerImpl.pluginMap: plugin name -> wrapper (0: no entry)
  wrappers,    \* the pluginWrapper objects: [config, plugin, pluginHandlers]
  plugins,     \* the wasmPluginImpl objects
  callsLeft,   \* calls the callers can still begin
  thr,         \* each thread's call: its position, arguments, locals, result
  panicked     \* the process has panicked

vars == <<pluginMap, wrappers, plugins, callsLeft, thr, panicked>>

\* ---------------------------------------------------------- wasmPluginImpl
\* A plugin object.  instanceWrappers is a Go slice: arr is its backing array
\* (as long as the slice's capacity) and len its length; 0 is a nil element.
\* The plugin owns the module NewWasmPlugin compiled for it; created counts
\* the instances made from that module, which are numbered as they are made.
\* cleared counts the Clear() calls made on the plugin (Clear does nothing).
\* served is a history of the plugin: what the GetInstance calls returned, in
\* the order of their returns, since the instance list last changed;
\* activated is another: the plugin is or has been the plugin of a wrapper.
EmptyPlugin(cfg) ==
  [config |-> cfg, instanceNum |-> 0, arr |-> <<>>, len |-> 0,
   instanceWrappersIdx |-> 0, occupy |-> 0, created |-> 0, cleared |-> 0,
   served |-> <<>>, activated |-> FALSE]

instanceWrappers(pl) == SubSeq(pl.arr, 1, pl.len)

\* the instances module.NewInstance returns on its k successful calls
FreshInstances(n0, k) == [i \in 1..k |-> n0 + i]

\* a variant of EnsureIsNoop that lets the target zero through
EnsureIsNoopNegative(num, instanceNum) == num < 0 \/ num = instanceNum

\* EnsureInstanceNum returns at once: nothing to do
EnsureIsNoop(num, instanceNum) == num <= 0 \/ num = instanceNum

\* EnsureInstanceNum takes the shrink branch
EnsureShrinks(num, instanceNum) == num < instanceNum

\* w.instanceWrappers[:num] panics when num exceeds the capacity
CanReslice(pl, num) == num <= Len(pl.arr)

\* a variant of ShrinkLocked that keeps the last num instances
ShrinkKeepsLast(pl, num) ==
  [pl EXCEPT !.arr = [i \in 1..Len(pl.arr) |->
                        IF i <= num THEN pl.arr[pl.len - num + i] ELSE 0],
             !.len = num,
             !.instanceNum = num,
             !.served = <<>>]

\* the shrink branch under the lock: nil the excess, reslice, set the count
ShrinkLocked(pl, num) ==
  [pl EXCEPT !.arr = [i \in 1..Len(pl.arr) |->
                        IF i > num /\ i <= pl.len THEN 0 ELSE pl.arr[i]],
             !.len = num,
             !.instanceNum = num,
             !.served = <<>>]

\* append(s, more...): in place while the capacity allows, else a new array
\* of twice the capacity (or of the needed length when that is more)
GoAppend(arr, len, more) ==
  LET newLen == len + Len(more)
      cap == Len(arr)
      newCap == IF newLen > 2 * cap THEN newLen ELSE 2 * cap
  IN  IF newLen <= cap
        THEN [i \in 1..cap |-> IF i > len /\ i <= newLen THEN more[i - len] ELSE arr[i]]
        ELSE SubSeq(arr, 1, len) \o more \o Zeros(newCap - newLen)

\* the grow branch under the lock: append the new instances, add to the count
GrowLocked(pl, newInstance) ==
  [pl EXCEPT !.arr = GoAppend(pl.arr, pl.len, newInstance),
             !.len = pl.len + Len(newInstance),
             !.instanceNum = pl.instanceNum + Len(newInstance),
             !.served = IF newInstance = <<>> THEN pl.served ELSE <<>>]

\* a variant of NumToCreate that asks for num instances whatever the pool holds
NumToCreateAll(num, instanceNum) == num

\* how many instances the grow branch asks the engine for
NumToCreate(num, instanceNum) == IF num > instanceNum THEN num - instanceNum ELSE 0

\* EnsureInstanceNum on a plugin no other thread can reach (NewWasmPlugin's)
EnsureInstanceNumOn(pl, num, newInstance) ==
  IF EnsureIsNoop(num, pl.instanceNum) THEN pl
  ELSE IF EnsureShrinks(num, pl.instanceNum) THEN ShrinkLocked(pl, num)
  ELSE GrowLocked(pl, newInstance)

\* the index GetInstance computes
GetInstanceIndex(pl) == GoMod(pl.instanceWrappersIdx, pl.len)

\* w.instanceWrappersIdx++
NextIdx(idx) == Add32(idx, 1)

\* atomic.AddInt32(&w.occupy, d)
AddOccupy(pl, d) == [pl EXCEPT !.occupy = Add32(pl.occupy, d)]

\* NewWasmPlugin's instance count: InstanceNum <= 0 means runtime.NumCPU()
DefaultInstanceNum(cfg) == IF cfg.InstanceNum <= 0 THEN NumCPU ELSE cfg.InstanceNum

\* What the environment does during one NewWasmPlugin: whether the bytes load,
\* whether vm.NewModule returns a module, how many NewInstance calls succeed.
NewOutcomes(cfg) ==
  { [bytes |-> FALSE, module |-> FALSE, made |-> 0],
    [bytes |-> TRUE, module |-> FALSE, made |-> 0] }
  \cup
  { [bytes |-> TRUE, module |-> TRUE, made |-> k] : k \in 0..DefaultInstanceNum(cfg) }

\* a variant of NewWasmPlugin that returns the plugin even when no instance
\* was created
NewWasmPluginUnchecked(cfg, out) ==
  LET instanceNum == DefaultInstanceNum(cfg)
      wasmConfig == [cfg EXCEPT !.InstanceNum = instanceNum]
      plugin == EnsureInstanceNumOn([EmptyPlugin(wasmConfig) EXCEPT !.created = out.made],
                                    instanceNum, FreshInstances(0, out.made))
      none == EmptyPlugin(NoConfig)
  IN  IF ~GetWasmEngine(cfg.VmConfig[1].Engine) \/ ~out.bytes \/ ~out.module
        THEN [err |-> ErrModuleCreate, plugin |-> none, modules |-> 0, instances |-> 0]
        ELSE [err |-> NoError, plugin |-> plugin, modules |-> 1, instances |-> out.made]

\* NewWasmPlugin(wasmConfig), given the environment's outcome: the error,
\* the plugin (when err is NoError), the modules and instances created.
\* The caller has checked that VmConfig is not nil (line 63 panics on nil).
NewWasmPlugin(cfg, out) ==
  LET instanceNum == DefaultInstanceNum(cfg)
      wasmConfig == [cfg EXCEPT !.InstanceNum = instanceNum]
      plugin == EnsureInstanceNumOn([EmptyPlugin(wasmConfig) EXCEPT !.created = out.made],
                                    instanceNum, FreshInstances(0, out.made))
      none == EmptyPlugin(NoConfig)
  IN  IF ~GetWasmEngine(cfg.VmConfig[1].Engine)
        THEN [err |-> ErrEngineNotFound, plugin |-> none, modules |-> 0, instances |-> 0]
      ELSE IF ~out.bytes
        THEN [err |-> ErrWasmBytesLoad, plugin |-> none, modules |-> 0, instances |-> 0]
      ELSE IF ~out.module
        THEN [err |-> ErrModuleCreate, plugin |-> none, modules |-> 0, instances |-> 0]
      ELSE IF plugin.instanceNum = 0
        THEN [err |-> ErrInstanceCreate, plugin |-> none, modules |-> 1, instances |-> 0]
      ELSE [err |-> NoError, plugin |-> plugin, modules |-> 1, instances |-> out.made]

\* ------------------------------------------------------------ pluginWrapper
NewWrapper(cfg, p) == [config |-> cfg, plugin |-> p, pluginHandlers |-> <<>>]

\* a variant of UpdateRejects that refuses the empty name only
UpdateRejectsEmpty(config, current) == config.PluginName = ""

\* Update's first test: the name is empty or is not the wrapper's
UpdateRejects(config, current) ==
  config.PluginName = "" \/ config.PluginName # current.PluginName

\* an observer callback as the thread's call records it
Event(kind, h, cfg, p) == [kind |-> kind, h |-> h, config |-> cfg, plugin |-> p]

\* for _, handler := range handlers { handler.<kind>(...) }
Notify(handlers, kind, cfg, p) ==
  [i \in 1..Len(handlers) |-> Event(kind, handlers[i], cfg, p)]

\* ----------------------------------------------------------- wasmMangerImpl
\* a variant of DeepEqual that takes no two configs for equal
DeepEqualNever(a, b) == FALSE

\* a variant of shouldCreateNewPlugin that does not look at the url
shouldCreateIgnoringUrl(newConfig, oldConfig) ==
  IF newConfig.VmConfig = <<>> \/ oldConfig.VmConfig = <<>> THEN FALSE
  ELSE \/ newConfig.VmConfig[1].Engine # oldConfig.VmConfig[1].Engine
       \/ newConfig.VmConfig[1].Path # oldConfig.VmConfig[1].Path

\* reflect.DeepEqual on two configs: the VmConfig pointers are compared by
\* what they point to
DeepEqual(a, b) ==
  /\ a.PluginName = b.PluginName
  /\ a.InstanceNum = b.InstanceNum
  /\ Len(a.VmConfig) = Len(b.VmConfig)
  /\ (Len(a.VmConfig) = 1 => a.VmConfig[1] = b.VmConfig[1])

shouldCreateNewPlugin(newConfig, oldConfig) ==
  IF newConfig.VmConfig = <<>> \/ oldConfig.VmConfig = <<>> THEN FALSE
  ELSE \/ newConfig.VmConfig[1].Engine # oldConfig.VmConfig[1].Engine
       \/ newConfig.VmConfig[1].Path # oldConfig.VmConfig[1].Path
       \/ newConfig.VmConfig[1].Url # oldConfig.VmConfig[1].Url

\* pluginMap.Load(name): the wrapper, 0 when there is none
Load(map, name) == map[name]

\* GetWasmPluginWrapperByName: the wrapper registered under the name, 0 (nil)
\* for the empty name and for a name with no entry
GetWasmPluginWrapperByName(map, name) == IF name = "" THEN 0 ELSE Load(map, name)

\* -------------------------------------------------------------- the threads
\* what a call can see changed when it returns
Snapshot == [pluginMap |-> pluginMap, wrappers |-> wrappers, plugins |-> plugins]

NoSnapshot == [pluginMap |-> [n \in PluginNames |-> 0], wrappers |-> <<>>, plugins |-> <<>>]

NoPrev == [op |-> "", p |-> 0, num |-> 0, val |-> 0, made |-> 0]

\* A thread between calls.  When a call has returned (pc = "done"), op, the
\* arguments, ret/val (the results), events (the callbacks made) and pre (the
\* state when the call began), modules and made (the modules and instances
\* it had the engine create) describe it; prev is the EnsureInstanceNum
\* call the thread made right before, if that was its last call; held are
\* the instances GetInstance gave the thread, not yet released; exports
\* are the exports of the instance an ABI call is bound to, args the call's
\* arguments and invoked the invocations of exports the call made; attempts
\* are the results of the module.NewInstance calls a NewWasmPlugin call made
\* (TRUE for an instance, FALSE for nil) and result is the plugin it returned.
IdleThread ==
  [pc |-> "idle", op |-> "", ra |-> "",
   name |-> "", config |-> NoConfig, num |-> 0, h |-> 0, w |-> 0, p |-> 0,
   plugin |-> 0, oldPlugin |-> 0, idx |-> 0, iw |-> 0, tmp |-> 0,
   newInstance |-> <<>>, ret |-> NoError, val |-> 0, events |-> <<>>,
   visited |-> <<>>, built |-> 0, modules |-> 0, made |-> 0, log |-> "", pre |-> NoSnapshot, prev |-> NoPrev, held |-> <<>>,
   exports |-> {}, args |-> <<>>, invoked |-> <<>>,
   attempts |-> <<>>, result |-> EmptyPlugin(NoConfig)]

PrevOf(r) ==
  IF r.op = "EnsureInstanceNum"
    THEN [op |-> r.op, p |-> r.p, num |-> r.num, val |-> r.val, made |-> r.made]
    ELSE NoPrev

\* thread t begins the call op
Begin(t, op) ==
  [IdleThread EXCEPT !.op = op, !.pre = Snapshot, !.prev = thr[t].prev,
                     !.held = thr[t].held]

\* A caller takes the result of its call (Resume) as the call returns, before
\* any other thread steps: Returned are the threads whose call has returned.
Returned == { u \in Threads : thr[u].pc = "done" }

Idle(t) == ~panicked /\ Returned = {} /\ thr[t].pc = "idle" /\ callsLeft > 0

\* one more call has begun
Called == callsLeft' = callsLeft - 1

At(t, pc) == ~panicked /\ Returned \subseteq {t} /\ thr[t].pc = pc

\* the call returns to its caller
Return(r, err, val) == [r EXCEPT !.pc = "done", !.ret = err, !.val = val]

\* a variant of Readers in which GetInstance returns without RUnlock: a
\* thread keeps the read lock for as long as it has an instance of p
ReadersUntilRelease(p) ==
  { t \in Threads :
      \/ thr[t].p = p /\ thr[t].pc \in {"G_load", "G_store", "X_visit"}
      \/ \E i \in 1..Len(thr[t].held) : thr[t].held[i].p = p }

\* the threads holding plugin p's lock for reading
Readers(p) == { t \in Threads : thr[t].p = p /\ thr[t].pc \in {"G_load", "G_store", "X_visit"} }

\* a thread that makes no call
OffThread == [IdleThread EXCEPT !.pc = "off"]

Min(a, b) == IF a < b THEN a ELSE b

\* the thread panics: the process ends
Panics(t, r) ==
  /\ panicked' = TRUE
  /\ thr' = [thr EXCEPT ![t] = [r EXCEPT !.pc = "panic"]]

\* the thread goes on as r
Goes(t, r) ==
  /\ panicked' = panicked
  /\ thr' = [thr EXCEPT ![t] = r]

\* ------------------------------------------- wasmPluginImpl.GetInstance
\* RLock; idx := int(w.instanceWrappersIdx) % len(w.instanceWrappers);
\* iw := w.instanceWrappers[idx].  A zero length or an index below zero panics.
GetInstance(t, p) ==
  /\ Idle(t)
  /\ Called
  /\ LET pl == plugins[p]
         r == [Begin(t, "GetInstance") EXCEPT !.p = p]
     IN  IF pl.len = 0 \/ GetInstanceIndex(pl) < 0
           THEN Panics(t, r)
           ELSE Goes(t, [r EXCEPT !.pc = "G_load",
                                  !.idx = GetInstanceIndex(pl),
                                  !.iw = pl.arr[GetInstanceIndex(pl) + 1]])
  /\ UNCHANGED <<pluginMap, wrappers, plugins>>

\* w.instanceWrappersIdx++ reads the cursor ...
GetInstanceLoad(t) ==
  /\ At(t, "G_load")
  /\ Goes(t, [thr[t] EXCEPT !.pc = "G_store",
                            !.tmp = plugins[thr[t].p].instanceWrappersIdx])
  /\ UNCHANGED <<pluginMap, wrappers, plugins, callsLeft>>

\* ... and writes it back plus one; atomic.AddInt32(&w.occupy, 1); RUnlock;
\* return iw
GetInstanceStore(t) ==
  /\ At(t, "G_store")
  /\ LET r == thr[t]
     IN  /\ plugins' = [plugins EXCEPT ![r.p] =
                          AddOccupy([@ EXCEPT !.instanceWrappersIdx = NextIdx(r.tmp),
                                              !.served = Append(@, r.iw)], 1)]
         /\ Goes(t, [Return(r, NoError, r.iw) EXCEPT
                       !.held = Append(r.held, [p |-> r.p, iw |-> r.iw])])
  /\ UNCHANGED <<pluginMap, wrappers, callsLeft>>

\* ReleaseInstance(instanceWrapper): atomic.AddInt32(&w.occupy, -1), by a
\* caller that holds an instance of the plugin
ReleaseInstance(t) ==
  /\ Idle(t)
  /\ Called
  /\ thr[t].held # <<>>
  /\ LET got == Head(thr[t].held)
     IN  /\ plugins' = [plugins EXCEPT ![got.p] = AddOccupy(@, -1)]
         /\ Goes(t, [Return(Begin(t, "ReleaseInstance"), NoError, 0) EXCEPT
                       !.p = got.p, !.iw = got.iw, !.held = Tail(thr[t].held)])
  /\ UNCHANGED <<pluginMap, wrappers>>

\* --------------------------------------------------- wasmPluginImpl.Exec
\* RLock; the range statement takes the slice
Exec(t, p) ==
  /\ Idle(t)
  /\ Called
  /\ Goes(t, [Begin(t, "Exec") EXCEPT !.pc = "X_visit", !.p = p])
  /\ UNCHANGED <<pluginMap, wrappers, plugins>>

\* f is applied to the instances in turn until it returns false (after k of
\* them) or the slice ends; RUnlock
ExecVisit(t) ==
  /\ At(t, "X_visit")
  /\ \E k \in 0..plugins[thr[t].p].len :
       /\ k = 0 => plugins[thr[t].p].len = 0
       /\ Goes(t, [Return(thr[t], NoError, k) EXCEPT
                     !.visited = SubSeq(plugins[thr[t].p].arr, 1, k)])
  /\ UNCHANGED <<pluginMap, wrappers, plugins, callsLeft>>

\* -------------------------------------- wasmPluginImpl.EnsureInstanceNum
\* line 112: if num <= 0 || num == w.instanceNum
EnsureCheck(r, pl) ==
  IF EnsureIsNoop(r.num, pl.instanceNum)
    THEN [r EXCEPT !.pc = "E_ret"]
    ELSE [r EXCEPT !.pc = "E_cmp"]

\* a caller's EnsureInstanceNum(num) on plugin p
EnsureInstanceNum(t, p, num) ==
  /\ Idle(t)
  /\ Called
  /\ Goes(t, EnsureCheck([Begin(t, "EnsureInstanceNum") EXCEPT !.p = p, !.num = num],
                         plugins[p]))
  /\ UNCHANGED <<pluginMap, wrappers, plugins>>

\* line 116: if num < w.instanceNum
EnsureCompare(t) ==
  /\ At(t, "E_cmp")
  /\ Goes(t, [thr[t] EXCEPT !.pc =
                IF EnsureShrinks(thr[t].num, plugins[thr[t].p].instanceNum)
                  THEN "E_shrink" ELSE "E_create"])
  /\ UNCHANGED <<pluginMap, wrappers, plugins, callsLeft>>

\* lines 117-123, under the write lock
EnsureShrink(t) ==
  /\ At(t, "E_shrink")
  /\ Readers(thr[t].p) = {}
  /\ LET r == thr[t]
         pl == plugins[r.p]
     IN  IF ~CanReslice(pl, r.num)
           THEN Panics(t, r) /\ plugins' = plugins
           ELSE /\ plugins' = [plugins EXCEPT ![r.p] = ShrinkLocked(pl, r.num)]
                /\ Goes(t, [r EXCEPT !.pc = "E_ret"])
  /\ UNCHANGED <<pluginMap, wrappers, callsLeft>>

\* lines 125-135: numToCreate := num - w.instanceNum, then that many
\* module.NewInstance calls, of which k succeed
EnsureCreate(t) ==
  /\ At(t, "E_create")
  /\ LET pl == plugins[thr[t].p]
     IN  \E k \in 0..Min(NumToCreate(thr[t].num, pl.instanceNum),
                         MaxInstances - pl.created) :
           /\ Goes(t, [thr[t] EXCEPT !.pc = "E_append", !.made = k,
                                     !.newInstance = FreshInstances(pl.created, k)])
           /\ plugins' = [plugins EXCEPT ![thr[t].p].created = @ + k]
  /\ UNCHANGED <<pluginMap, wrappers, callsLeft>>

\* lines 137-140, under the write lock
EnsureAppend(t) ==
  /\ At(t, "E_append")
  /\ Readers(thr[t].p) = {}
  /\ plugins' = [plugins EXCEPT ![thr[t].p] = GrowLocked(@, thr[t].newInstance)]
  /\ Goes(t, [thr[t] EXCEPT !.pc = "E_ret"])
  /\ UNCHANGED <<pluginMap, wrappers, callsLeft>>

\* ----------------------------------------------------- pluginWrapper.Update
\* line 77: the name test, which reads the wrapper's config under the lock
UpdateCheck(r, wr) ==
  IF UpdateRejects(r.config, wr.config)
    THEN Return(r, NoError, 0)
    ELSE [r EXCEPT !.pc = "U_cfgNotify"]

\* Update returns; under updateWasm, line 165 logs and AddOrUpdateWasm
\* returns nil
UpdateReturn(r) ==
  IF r.ra = "M"
    THEN [Return(r, NoError, 0) EXCEPT !.log = "update wasm plugin"]
    ELSE Return(r, NoError, 0)

\* a caller's Update(config, plugin) on wrapper w
Update(t, w, config, plugin) ==
  /\ Idle(t)
  /\ Called
  /\ Goes(t, UpdateCheck([Begin(t, "Update") EXCEPT !.w = w, !.config = config,
                                                    !.plugin = plugin],
                         wrappers[w]))
  /\ UNCHANGED <<pluginMap, wrappers, plugins>>

\* Update called by updateWasm (line 163)
UpdateCheckStep(t) ==
  /\ At(t, "U_check")
  /\ Goes(t, LET r == UpdateCheck(thr[t], wrappers[thr[t].w])
             IN  IF r.pc = "idle" THEN UpdateReturn(thr[t]) ELSE r)
  /\ UNCHANGED <<pluginMap, wrappers, plugins, callsLeft>>

\* lines 82-84: OnConfigUpdate to the handlers, read without the lock
UpdateConfigNotify(t) ==
  /\ At(t, "U_cfgNotify")
  /\ Goes(t, [thr[t] EXCEPT !.pc = "U_setConfig",
                !.events = @ \o Notify(wrappers[thr[t].w].pluginHandlers,
                                       "OnConfigUpdate", thr[t].config, 0)])
  /\ UNCHANGED <<pluginMap, wrappers, plugins, callsLeft>>

\* lines 86-93: w.config = config under the lock; return when plugin is nil
UpdateSetConfig(t) ==
  /\ At(t, "U_setConfig")
  /\ wrappers' = [wrappers EXCEPT ![thr[t].w].config = thr[t].config]
  /\ Goes(t, IF thr[t].plugin = 0 THEN UpdateReturn(thr[t])
             ELSE [thr[t] EXCEPT !.pc = "U_getPlugin"])
  /\ UNCHANGED <<pluginMap, plugins, callsLeft>>

\* a variant of UpdateGetPlugin that goes on when the plugin is the same
UpdateGetPluginAlways(t) ==
  /\ At(t, "U_getPlugin")
  /\ Goes(t, [thr[t] EXCEPT !.pc = "U_startNotify",
                            !.oldPlugin = wrappers[thr[t].w].plugin])
  /\ UNCHANGED <<pluginMap, wrappers, plugins, callsLeft>>

\* lines 96-99: oldPlugin := w.GetPlugin(); return when it is the same
UpdateGetPlugin(t) ==
  /\ At(t, "U_getPlugin")
  /\ Goes(t, IF thr[t].plugin = wrappers[thr[t].w].plugin THEN UpdateReturn(thr[t])
             ELSE [thr[t] EXCEPT !.pc = "U_startNotify",
                                 !.oldPlugin = wrappers[thr[t].w].plugin])
  /\ UNCHANGED <<pluginMap, wrappers, plugins, callsLeft>>

\* lines 102-104: OnPluginStart(plugin) to the handlers
UpdateStartNotify(t) ==
  /\ At(t, "U_startNotify")
  /\ Goes(t, [thr[t] EXCEPT !.pc = "U_setPlugin",
                !.events = @ \o Notify(wrappers[thr[t].w].pluginHandlers,
                                       "OnPluginStart", NoConfig, thr[t].plugin)])
  /\ UNCHANGED <<pluginMap, wrappers, plugins, callsLeft>>

\* lines 106-108: w.plugin = plugin under the lock
UpdateSetPlugin(t) ==
  /\ At(t, "U_setPlugin")
  /\ wrappers' = [wrappers EXCEPT ![thr[t].w].plugin = thr[t].plugin]
  /\ plugins' = [plugins EXCEPT ![thr[t].plugin].activated = TRUE]
  /\ Goes(t, [thr[t] EXCEPT !.pc = "U_destroyNotify",
                !.events = Append(@, Event("publish", 0, NoConfig, thr[t].plugin))])
  /\ UNCHANGED <<pluginMap, callsLeft>>

\* a variant of UpdateDestroyNotify that clears the old plugin first
UpdateClearFirst(t) ==
  /\ At(t, "U_destroyNotify")
  /\ plugins' = [plugins EXCEPT ![thr[t].oldPlugin].cleared = @ + 1]
  /\ Goes(t, [UpdateReturn(thr[t]) EXCEPT
                !.events = (@ \o <<Event("Clear", 0, NoConfig, thr[t].oldPlugin)>>)
                           \o Notify(wrappers[thr[t].w].pluginHandlers,
                                     "OnPluginDestroy", NoConfig, thr[t].oldPlugin)])
  /\ UNCHANGED <<pluginMap, wrappers, callsLeft>>

\* lines 110-113: OnPluginDestroy(oldPlugin) to the handlers, oldPlugin.Clear()
UpdateDestroyNotify(t) ==
  /\ At(t, "U_destroyNotify")
  /\ plugins' = [plugins EXCEPT ![thr[t].oldPlugin].cleared = @ + 1]
  /\ Goes(t, [UpdateReturn(thr[t]) EXCEPT
                !.events = (@ \o Notify(wrappers[thr[t].w].pluginHandlers,
                                        "OnPluginDestroy", NoConfig, thr[t].oldPlugin))
                           \o <<Event("Clear", 0, NoConfig, thr[t].oldPlugin)>>])
  /\ UNCHANGED <<pluginMap, wrappers, callsLeft>>

\* -------------------------------------- pluginWrapper.RegisterPluginHandler
\* lines 50-56: a nil handler is dropped; the handler is appended under the lock
RegisterPluginHandler(t, w, h) ==
  /\ Idle(t)
  /\ Called
  /\ LET r == [Begin(t, "RegisterPluginHandler") EXCEPT !.w = w, !.h = h]
     IN  IF h = 0
           THEN Goes(t, Return(r, NoError, 0)) /\ wrappers' = wrappers
           ELSE /\ Len(wrappers[w].pluginHandlers) < MaxHandlers
                /\ wrappers' = [wrappers EXCEPT ![w].pluginHandlers = Append(@, h)]
                /\ Goes(t, [r EXCEPT !.pc = "R_cfg"])
  /\ UNCHANGED <<pluginMap, plugins>>

\* line 58: pluginHandler.OnConfigUpdate(w.config), w.config read without the lock
RegisterConfigNotify(t) ==
  /\ At(t, "R_cfg")
  /\ Goes(t, [thr[t] EXCEPT !.pc = "R_start",
                !.events = Append(@, Event("OnConfigUpdate", thr[t].h,
                                           wrappers[thr[t].w].config, 0))])
  /\ UNCHANGED <<pluginMap, wrappers, plugins, callsLeft>>

\* line 59: pluginHandler.OnPluginStart(w.plugin), w.plugin read without the lock
RegisterStartNotify(t) ==
  /\ At(t, "R_start")
  /\ Goes(t, [Return(thr[t], NoError, 0) EXCEPT
                !.events = Append(@, Event("OnPluginStart", thr[t].h, NoConfig,
                                           wrappers[thr[t].w].plugin))])
  /\ UNCHANGED <<pluginMap, wrappers, plugins, callsLeft>>

\* --------------------------------------- pluginWrapper.GetPlugin, GetConfig
GetPlugin(t, w) ==
  /\ Idle(t)
  /\ Called
  /\ Goes(t, [Return(Begin(t, "GetPlugin"), NoError, wrappers[w].plugin) EXCEPT !.w = w])
  /\ UNCHANGED <<pluginMap, wrappers, plugins>>

GetConfig(t, w) ==
  /\ Idle(t)
  /\ Called
  /\ Goes(t, [Return(Begin(t, "GetConfig"), NoError, 0) EXCEPT
                !.w = w, !.config = wrappers[w].config])
  /\ UNCHANGED <<pluginMap, wrappers, plugins>>

\* ------------------------------------------- wasmMangerImpl.AddOrUpdateWasm
\* NewWasmPlugin as a step of thread record r: the call fails and the caller
\* returns err, or the plugin is built and the thread goes on at pc.  A nil
\* VmConfig panics at line 63.  Once MaxPlugins plugins are built the engine
\* creates no more modules.
BuildPlugin(t, r, err, pc) ==
  IF r.config.VmConfig = <<>>
    THEN Panics(t, r) /\ plugins' = plugins
    ELSE \E out \in NewOutcomes(r.config) :
           LET res == NewWasmPlugin(r.config, out)
           IN  /\ out.module => Len(plugins) < MaxPlugins
               /\ IF res.err # NoError
                    THEN /\ plugins' = plugins
                         /\ Goes(t, [Return(r, IF err THEN res.err ELSE NoError, 0) EXCEPT
                                       !.built = 1, !.modules = res.modules,
                                       !.log = "fail to create wasm plugin"])
                    ELSE /\ plugins' = Append(plugins, res.plugin)
                         /\ Goes(t, [r EXCEPT !.pc = pc, !.built = 1,
                                              !.modules = res.modules,
                                              !.made = res.instances,
                                              !.plugin = Len(plugins) + 1])

\* lines 169-188: the empty name is refused; pluginMap.Load; for a new name
\* the plugin is built
AddOrUpdateWasm(t, config) ==
  /\ Idle(t)
  /\ Called
  /\ LET r == [Begin(t, "AddOrUpdateWasm") EXCEPT
                 !.config = config, !.name = config.PluginName]
     IN  IF config.PluginName = ""
           THEN /\ Goes(t, [Return(r, ErrEmptyPluginName, 0) EXCEPT
                              !.log = "empty plugin name"])
                /\ UNCHANGED plugins
         ELSE IF Load(pluginMap, config.PluginName) # 0
           THEN /\ Goes(t, [r EXCEPT !.pc = "M_getConfig",
                                     !.w = Load(pluginMap, config.PluginName)])
                /\ UNCHANGED plugins
         ELSE BuildPlugin(t, r, TRUE, "A_store")
  /\ UNCHANGED <<pluginMap, wrappers>>

\* lines 190-200: pluginMap.LoadOrStore(name, pw) stores the new wrapper
\* unless the name has an entry by now; return nil
AddStore(t) ==
  /\ At(t, "A_store")
  /\ IF Load(pluginMap, thr[t].name) = 0
       THEN /\ wrappers' = Append(wrappers, NewWrapper(thr[t].config, thr[t].plugin))
            /\ pluginMap' = [pluginMap EXCEPT ![thr[t].name] = Len(wrappers) + 1]
            /\ plugins' = [plugins EXCEPT ![thr[t].plugin].activated = TRUE]
       ELSE UNCHANGED <<wrappers, pluginMap, plugins>>
  /\ Goes(t, [Return(thr[t], NoError, 0) EXCEPT !.log = "add new wasm plugin"])
  /\ UNCHANGED callsLeft

\* ------------------------------------------------ wasmMangerImpl.updateWasm
\* lines 137-141: the same config is not applied
UpdateWasmGetConfig(t) ==
  /\ At(t, "M_getConfig")
  /\ Goes(t, IF DeepEqual(thr[t].config, wrappers[thr[t].w].config)
               THEN [Return(thr[t], NoError, 0) EXCEPT !.log = "same config"]
               ELSE [thr[t] EXCEPT !.pc = "M_getPlugin"])
  /\ UNCHANGED <<pluginMap, wrappers, plugins, callsLeft>>

\* line 143: plugin := pluginWrapper.GetPlugin()
UpdateWasmGetPlugin(t) ==
  /\ At(t, "M_getPlugin")
  /\ Goes(t, [thr[t] EXCEPT !.pc = "M_decide", !.plugin = wrappers[thr[t].w].plugin])
  /\ UNCHANGED <<pluginMap, wrappers, plugins, callsLeft>>

\* lines 145-153: a new plugin is built, or the plugin at hand is resized
UpdateWasmDecide(t) ==
  /\ At(t, "M_decide")
  /\ IF shouldCreateNewPlugin(thr[t].config, wrappers[thr[t].w].config)
       THEN BuildPlugin(t, thr[t], FALSE, "U_check")
       ELSE /\ Goes(t, [thr[t] EXCEPT !.pc = "E_check", !.ra = "M",
                                      !.p = thr[t].plugin,
                                      !.num = thr[t].config.InstanceNum])
            /\ UNCHANGED plugins
  /\ UNCHANGED <<pluginMap, wrappers, callsLeft>>

\* EnsureInstanceNum called by updateWasm (line 153)
EnsureCheckStep(t) ==
  /\ At(t, "E_check")
  /\ Goes(t, EnsureCheck(thr[t], plugins[thr[t].p]))
  /\ UNCHANGED <<pluginMap, wrappers, plugins, callsLeft>>

\* lines 113 and 143: return w.instanceNum.  Under updateWasm (lines 154-163)
\* a count of zero ends the update, a nil VmConfig panics at line 160, and
\* otherwise Update is called.
EnsureReturn(t) ==
  /\ At(t, "E_ret")
  /\ LET r == thr[t]
         n == plugins[r.p].instanceNum
     IN  IF r.ra = ""
           THEN Goes(t, Return(r, NoError, n))
         ELSE IF n = 0
           THEN Goes(t, [Return(r, NoError, 0) EXCEPT
                           !.log = "fail to update wasm instance num"])
         ELSE IF r.config.VmConfig = <<>>
           THEN Panics(t, [r EXCEPT !.tmp = n])
         ELSE Goes(t, [r EXCEPT !.pc = "U_check", !.tmp = n])
  /\ UNCHANGED <<pluginMap, wrappers, plugins, callsLeft>>

\* -------------------------------- wasmMangerImpl.GetWasmPluginWrapperByName
LookupWrapper(t, name) ==
  /\ Idle(t)
  /\ Called
  /\ Goes(t, [Return(Begin(t, "GetWasmPluginWrapperByName"), NoError,
                     GetWasmPluginWrapperByName(pluginMap, name)) EXCEPT !.name = name])
  /\ UNCHANGED <<pluginMap, wrappers, plugins>>

\* --------------------------------- wasmMangerImpl.UninstallWasmPluginByName
\* lines 223-227: pluginMap.Load; an unknown name is an error
UninstallWasmPluginByName(t, name) ==
  /\ Idle(t)
  /\ Called
  /\ LET r == [Begin(t, "UninstallWasmPluginByName") EXCEPT !.name = name]
     IN  Goes(t, IF Load(pluginMap, name) = 0
                   THEN [Return(r, ErrPluginNotFound, 0) EXCEPT !.log = "plugin not found"]
                   ELSE [r EXCEPT !.pc = "N_delete", !.w = Load(pluginMap, name)])
  /\ UNCHANGED <<pluginMap, wrappers, plugins>>

\* a variant of UninstallDelete that deletes nothing
UninstallKeep(t) ==
  /\ At(t, "N_delete")
  /\ Goes(t, [thr[t] EXCEPT !.pc = "N_clear"])
  /\ UNCHANGED <<pluginMap, wrappers, plugins, callsLeft>>

\* line 229: pluginMap.Delete(pluginName)
UninstallDelete(t) ==
  /\ At(t, "N_delete")
  /\ pluginMap' = [pluginMap EXCEPT ![thr[t].name] = 0]
  /\ Goes(t, [thr[t] EXCEPT !.pc = "N_clear"])
  /\ UNCHANGED <<wrappers, plugins, callsLeft>>

\* lines 231-236: pw.GetPlugin().Clear(); return nil
UninstallClear(t) ==
  /\ At(t, "N_clear")
  /\ LET p == wrappers[thr[t].w].plugin
     IN  /\ plugins' = [plugins EXCEPT ![p].cleared = @ + 1]
         /\ Goes(t, [Return(thr[t], NoError, 0) EXCEPT
                       !.log = "uninstall wasm plugin",
                       !.events = Append(@, Event("Clear", 0, NoConfig, p))])
  /\ UNCHANGED <<pluginMap, wrappers, callsLeft>>

\* ------------------------------------------------------- the specifications
\* the caller has the call's result and is free to make its next call
Resume(t) ==
  /\ At(t, "done")
  /\ Goes(t, [IdleThread EXCEPT !.prev = PrevOf(thr[t]), !.held = thr[t].held])
  /\ UNCHANGED <<pluginMap, wrappers, plugins, callsLeft>>

\* the wrappers the registry holds and the plugins active in them: what a
\* caller gets from GetWasmPluginWrapperByName and GetPlugin
WrapperIds == { pluginMap[n] : n \in PluginNames } \ {0}

PluginIds == { wrappers[w].plugin : w \in WrapperIds }

\* a caller takes an instance of a plugin or gives one back
ServeCall(t) ==
  \/ \E p \in PluginIds : GetInstance(t, p)
  \/ ReleaseInstance(t)

\* the further steps of GetInstance
ServeStep(t) ==
  \/ GetInstanceLoad(t)
  \/ GetInstanceStore(t)

\* a caller begins an operation of the pool
PoolCall(t) ==
  \/ ServeCall(t)
  \/ \E p \in PluginIds : Exec(t, p)
  \/ \E p \in PluginIds, num \in EnsureNums : EnsureInstanceNum(t, p, num)

\* the further steps of the pool's operations
PoolStep(t) ==
  \/ ServeStep(t)
  \/ ExecVisit(t)

\* the further steps of EnsureInstanceNum
EnsureStep(t) ==
  \/ EnsureCompare(t)
  \/ EnsureShrink(t)
  \/ EnsureCreate(t)
  \/ EnsureAppend(t)
  \/ EnsureReturn(t)

\* a caller begins an operation of a wrapper; Update is called with no plugin
\* or with the wrapper's own
WrapperCall(t) ==
  \/ \E w \in WrapperIds, config \in UpdateConfigs :
       \E plugin \in {0, wrappers[w].plugin} : Update(t, w, config, plugin)
  \/ \E w \in WrapperIds :
       \E h \in {NilHandler, Len(wrappers[w].pluginHandlers) + 1} :
         RegisterPluginHandler(t, w, h)
  \/ \E w \in WrapperIds : GetPlugin(t, w)
  \/ \E w \in WrapperIds : GetConfig(t, w)

\* the further steps of the wrapper's operations
WrapperStep(t) ==
  \/ UpdateCheckStep(t)
  \/ UpdateConfigNotify(t)
  \/ UpdateSetConfig(t)
  \/ UpdateGetPlugin(t)
  \/ UpdateStartNotify(t)
  \/ UpdateSetPlugin(t)
  \/ UpdateDestroyNotify(t)
  \/ RegisterConfigNotify(t)
  \/ RegisterStartNotify(t)

\* a caller begins an operation of the manager
ManagerCall(t) ==
  \/ \E config \in Configs : AddOrUpdateWasm(t, config)
  \/ \E name \in PluginNames : LookupWrapper(t, name)
  \/ \E name \in PluginNames : UninstallWasmPluginByName(t, name)

\* the further steps of the manager's operations
ManagerStep(t) ==
  \/ AddStore(t)
  \/ UpdateWasmGetConfig(t)
  \/ UpdateWasmGetPlugin(t)
  \/ UpdateWasmDecide(t)
  \/ EnsureCheckStep(t)
  \/ UninstallDelete(t)
  \/ UninstallClear(t)

\* The manager after construction (var wasmManagerInstance = &wasmMangerImpl{}),
\* with one caller.
Init ==
  /\ pluginMap = [n \in PluginNames |-> 0]
  /\ wrappers = <<>>
  /\ plugins = <<>>
  /\ callsLeft = MaxCalls
  /\ thr = [t \in Threads |-> IF t = 1 THEN IdleThread ELSE OffThread]
  /\ panicked = FALSE

Next ==
  \E t \in Threads :
    \/ ManagerCall(t)
    \/ ManagerStep(t)
    \/ WrapperCall(t)
    \/ WrapperStep(t)
    \/ EnsureStep(t)
    \/ Resume(t)

Spec == Init /\ [][Next]_vars

\* The pool of one plugin in use.  AddOrUpdateWasm has registered plugin "a"
\* (the engine made at least one of the instances asked for), earlier
\* GetInstance calls, all released since, have left the cursor at idx (one of
\* cursors), and the given number of callers use the plugin for the given
\* number of calls.
PoolConfigs == { c \in Configs : c.PluginName = "a" /\ c.VmConfig = <<BaseVm>> }

PoolStart(callers, cursors, calls) ==
  \E cfg \in PoolConfigs, idx \in cursors :
    \E out \in NewOutcomes(cfg) :
      /\ NewWasmPlugin(cfg, out).err = NoError
      /\ plugins = <<[NewWasmPlugin(cfg, out).plugin EXCEPT !.instanceWrappersIdx = idx,
                                                              !.activated = TRUE]>>
      /\ wrappers = <<NewWrapper(cfg, 1)>>
      /\ pluginMap = [n \in PluginNames |-> IF n = "a" THEN 1 ELSE 0]
      /\ callsLeft = calls
      /\ thr = [t \in Threads |-> IF t <= callers THEN IdleThread ELSE OffThread]
      /\ panicked = FALSE

\* one caller resizes the pool, runs Exec, takes and releases instances
PoolInit == PoolStart(1, CursorStarts, MaxPoolCalls)

PoolNext ==
  \E t \in Threads :
    \/ PoolCall(t)
    \/ PoolStep(t)
    \/ EnsureStep(t)
    \/ Resume(t)

SpecPool == PoolInit /\ [][PoolNext]_vars

\* two callers take and release instances at the same time: no resize
ServeInit == PoolStart(2, CursorStarts, MaxPoolCalls)

ServeNext ==
  \E t \in Threads :
    \/ ServeCall(t)
    \/ ServeStep(t)
    \/ Resume(t)

SpecServe == ServeInit /\ [][ServeNext]_vars

\* two callers resize the pool at the same time
ResizeInit == PoolStart(2, {0}, MaxCalls)

ResizeNext ==
  \E t \in Threads :
    \/ \E p \in PluginIds, num \in EnsureNums : EnsureInstanceNum(t, p, num)
    \/ EnsureStep(t)
    \/ Resume(t)

SpecResize == ResizeInit /\ [][ResizeNext]_vars

\* Two callers of the manager at the same time.  The registry is empty, or
\* AddOrUpdateWasm has registered plugin "a" with the base config.
ConcConfigs ==
  { ConfigOf("a", 1, <<BaseVm>>),
    ConfigOf("a", 3, <<BaseVm>>),
    ConfigOf("a", 1, <<VmOf("e2", "p1", "", 0, 0)>>),
    ConfigOf("a", 1, <<VmOf("e1", "p2", "", 0, 0)>>) }

ConcInit ==
  \/ /\ pluginMap = [n \in PluginNames |-> 0]
     /\ wrappers = <<>>
     /\ plugins = <<>>
     /\ callsLeft = MaxCalls
     /\ thr = [t \in Threads |-> IdleThread]
     /\ panicked = FALSE
  \/ PoolStart(2, {0}, MaxCalls) /\ wrappers[1].config = ConfigOf("a", 1, <<BaseVm>>)

\* a caller begins an operation of the manager on the name "a" or registers
\* an observer, or nil, with a wrapper
ConcCall(t) ==
  \/ \E config \in ConcConfigs : AddOrUpdateWasm(t, config)
  \/ UninstallWasmPluginByName(t, "a")
  \/ \E w \in WrapperIds :
       \E h \in {NilHandler, Len(wrappers[w].pluginHandlers) + 1} :
         RegisterPluginHandler(t, w, h)

ConcNext ==
  \E t \in Threads :
    \/ ConcCall(t)
    \/ ManagerStep(t)
    \/ WrapperStep(t)
    \/ EnsureStep(t)
    \/ Resume(t)

SpecConc == ConcInit /\ [][ConcNext]_vars

\* ------------------------------------------ every operation, two callers
\* Two callers that use the manager, the wrapper of plugin "a" and its pool
\* at the same time, for a few calls; plugin "a" is registered at the start.
LiveCalls == MaxCalls - 1

LiveConfigs ==
  { ConfigOf("a", 3, <<BaseVm>>),
    ConfigOf("a", 1, <<VmOf("e2", "p1", "", 0, 0)>>) }

LiveInit == PoolStart(2, {0}, LiveCalls)

LiveCall(t) ==
  \/ \E config \in LiveConfigs : AddOrUpdateWasm(t, config)
  \/ UninstallWasmPluginByName(t, "a")
  \/ \E w \in WrapperIds, config \in LiveConfigs :
       Update(t, w, config, wrappers[w].plugin)
  \/ \E w \in WrapperIds :
       RegisterPluginHandler(t, w, Len(wrappers[w].pluginHandlers) + 1)
  \/ \E w \in WrapperIds : GetPlugin(t, w)
  \/ \E w \in WrapperIds : GetConfig(t, w)
  \/ \E p \in PluginIds, num \in {1, 2} : EnsureInstanceNum(t, p, num)
  \/ \E p \in PluginIds : GetInstance(t, p)
  \/ ReleaseInstance(t)
  \/ \E p \in PluginIds : Exec(t, p)

\* a step of the call thread t is in, or the return to its caller
LiveStep(t) ==
  \/ ManagerStep(t)
  \/ WrapperStep(t)
  \/ EnsureStep(t)
  \/ PoolStep(t)
  \/ Resume(t)

LiveNext == \E t \in Threads : LiveCall(t) \/ LiveStep(t)

\* the scheduler runs every goroutine that can take a step; callers need not
\* make calls
SpecLive == LiveInit /\ [][LiveNext]_vars /\ \A t \in Threads : WF_vars(LiveStep(t))

\* ------------------------------------------------ NewWasmPlugin, called
\* a variant of Successes that counts the nil instances too
SuccessesAll(oks) == Len(oks)

\* the instances the creation loop appends: it skips (continue) the nil ones
Successes(oks) == Cardinality({ i \in DOMAIN oks : oks[i] })

\* the results module.NewInstance can give to the creation loop of
\* EnsureInstanceNum(num) on a plugin with instanceNum instances
CreateResults(num, instanceNum) == [1..NumToCreate(num, instanceNum) -> BOOLEAN]

\* the configs NewWasmPlugin is called with
NewConfigs == Configs

\* NewWasmPlugin(wasmConfig) called on its own: the bytes load or not, the
\* engine returns a module or nil, and each module.NewInstance call returns
\* an instance or nil.  A config with no VmConfig panics.
NewWasmPluginCall(t, cfg, bytes, module, oks) ==
  /\ Idle(t)
  /\ Called
  /\ LET out == [bytes |-> bytes, module |-> module, made |-> Successes(oks)]
         b == [Begin(t, "NewWasmPlugin") EXCEPT !.config = cfg]
     IN  IF cfg.VmConfig = <<>>
           THEN Panics(t, b)
           ELSE LET r == NewWasmPlugin(cfg, out)
                IN  Goes(t, [Return(b, r.err, 0) EXCEPT
                               !.modules = r.modules,
                               !.made = r.instances,
                               !.attempts = IF r.modules = 1 THEN oks ELSE <<>>,
                               !.result = r.plugin])
  /\ UNCHANGED <<pluginMap, wrappers, plugins>>

NewNext ==
  \E t \in Threads :
    \/ \E cfg \in NewConfigs, bytes \in BOOLEAN, module \in BOOLEAN :
         \E oks \in CreateResults(DefaultInstanceNum(cfg), 0) :
           /\ (~bytes => ~module)
           /\ (~module => \A i \in DOMAIN oks : ~oks[i])
           /\ NewWasmPluginCall(t, cfg, bytes, module, oks)
    \/ Resume(t)

SpecNew == Init /\ [][NewNext]_vars

\* ------------------------------------------------ wasmContext: ABI calls
\* Calls of the ABI: _start and three that return only an error, three that
\* return a code and an error.
ErrorOnlyCalls == {"_start", "proxy_on_context_create", "proxy_on_log"}

CodeCalls == {"proxy_on_vm_start", "proxy_on_done", "proxy_on_request_headers"}

AbiCalls == ErrorOnlyCalls \cup CodeCalls

\* the number of int32 arguments of each call
Arity(fn) ==
  CASE fn = "_start" -> 0
    [] fn \in {"proxy_on_log", "proxy_on_done"} -> 1
    [] fn \in {"proxy_on_context_create", "proxy_on_vm_start"} -> 2
    [] OTHER -> 3

\* argument values: context ids, lengths, flags
ArgValues == {0, 1}

ArgsOf(fn) == [1..Arity(fn) -> ArgValues]

\* the export sets of the instances a context is bound to
ExportSets ==
  { {},
    {"proxy_on_vm_start", "proxy_on_log"},
    {"_start", "proxy_on_context_create", "proxy_on_done"},
    AbiCalls }

\* what the engine answers to the invocation of an export: an error, or a
\* value
EngineErrors == {"trap", "out of bounds memory access"}

I32Values == {0, 1, -1, MaxInt32}

Value(v) == [ty |-> "i32", value |-> v]

EngineOutcomes ==
  { [err |-> e, res |-> Value(0)] : e \in EngineErrors } \cup
  { [err |-> NoError, res |-> Value(v)] : v \in I32Values }

\* res.ToI32()
ToI32(res) == res.value

\* a variant of NotFound that does not name the call
NotFoundUnnamed(fn) == "func not found"

\* errors.New("func <name> not found")
NotFound(fn) == "func " \o fn \o " not found"

\* a context bound to an instance with the given exports is asked to make
\* the call fn with the arguments args
AbiCall(t, exports, fn, args) ==
  /\ Idle(t)
  /\ Called
  /\ Goes(t, [Begin(t, fn) EXCEPT !.pc = "B_lookup", !.exports = exports, !.args = args])
  /\ UNCHANGED <<pluginMap, wrappers, plugins>>

\* ff := wasm.instance.Exports[name]; if ff == nil { return errors.New(...) }
AbiLookup(t) ==
  /\ At(t, "B_lookup")
  /\ IF thr[t].op \notin thr[t].exports
       THEN Goes(t, Return(thr[t], NotFound(thr[t].op), 0))
       ELSE Goes(t, [thr[t] EXCEPT !.pc = "B_invoke"])
  /\ UNCHANGED <<pluginMap, wrappers, plugins, callsLeft>>

\* res, err := ff(args...); an error-only call returns err, a code call
\* returns 0, err on an error and res.ToI32(), nil otherwise
AbiInvoke(t) ==
  /\ At(t, "B_invoke")
  /\ \E out \in EngineOutcomes :
       LET r == [thr[t] EXCEPT !.invoked = Append(@, [func |-> thr[t].op, args |-> thr[t].args,
                                                     out |-> out])]
       IN  IF thr[t].op \in ErrorOnlyCalls
             THEN Goes(t, Return(r, out.err, 0))
             ELSE IF out.err # NoError
                    THEN Goes(t, Return(r, out.err, 0))
                    ELSE Goes(t, Return(r, NoError, ToI32(out.res)))
  /\ UNCHANGED <<pluginMap, wrappers, plugins, callsLeft>>

AbiNext ==
  \E t \in Threads :
    \/ \E exports \in ExportSets, fn \in AbiCalls :
         \E args \in ArgsOf(fn) : AbiCall(t, exports, fn, args)
    \/ AbiLookup(t)
    \/ AbiInvoke(t)
    \/ Resume(t)

SpecAbi == Init /\ [][AbiNext]_vars

\* ------------------------------------------------------------ properties
\* the elements of a sequence are pairwise distinct
Distinct(seq) == \A i, j \in 1..Len(seq) : i # j => seq[i] # seq[j]

\* the elements of a sequence
Range(seq) == { seq[i] : i \in 1..Len(seq) }

\* every cursor is far below the value where an int32 wraps
CursorLow == \A p \in 1..Len(plugins) : plugins[p].instanceWrappersIdx \in 0..MaxPoolCalls

\* The round-robin law in a state: no GetInstance call has panicked; an
\* EnsureInstanceNum(N) that returned N left N instances; and of the instances
\* GetInstance returned since the last resize, any N consecutive ones are N
\* different instances of the pool.
RoundRobinLaw ==
  /\ \A t \in Threads : ~(thr[t].pc = "panic" /\ thr[t].op = "GetInstance")
  /\ \A t \in Threads :
       (thr[t].pc = "done" /\ thr[t].op = "EnsureInstanceNum"
          /\ thr[t].num >= 1 /\ thr[t].val = thr[t].num)
       => /\ plugins[thr[t].p].len = thr[t].num
          /\ plugins[thr[t].p].instanceNum = thr[t].num
  /\ \A p \in 1..Len(plugins) :
       LET pl == plugins[p]
       IN  \A i \in 1..Len(pl.served) :
             i + pl.len - 1 <= Len(pl.served)
             => /\ Distinct(SubSeq(pl.served, i, i + pl.len - 1))
                /\ Range(SubSeq(pl.served, i, i + pl.len - 1)) = Range(instanceWrappers(pl))

\* C1 as stated: the round-robin law holds whatever value the cursor has
\* (one caller: the N GetInstance calls come one after the other).
C1_RoundRobin == RoundRobinLaw

\* C1, away from the wrap: while the cursor is far below 2^31 - 1, an
\* EnsureInstanceNum(N) that succeeded leaves N instances and N consecutive
\* GetInstance calls with no resize between them return every instance of
\* the pool once.
C1_RoundRobinBelowWrap == CursorLow => RoundRobinLaw

\* a pool shrunk from three instances to two has served two instances since
C1_Witness ==
  /\ CursorLow
  /\ \E p \in 1..Len(plugins) :
       /\ plugins[p].len = 2
       /\ Len(plugins[p].arr) = 3
       /\ plugins[p].arr[3] = 0
       /\ Len(plugins[p].served) = 2

\* thread t has returned from an EnsureInstanceNum call it made directly after
\* another one on the same plugin with the same target
SecondEnsure(t) ==
  /\ thr[t].pc = "done"
  /\ thr[t].op = "EnsureInstanceNum"
  /\ thr[t].prev.op = "EnsureInstanceNum"
  /\ thr[t].prev.p = thr[t].p
  /\ thr[t].prev.num = thr[t].num

\* the call thread t returns from gave the count of the call before it,
\* created no instance and left the list, instanceNum and the cursor alone
ChangedNothing(t) ==
  LET r == thr[t]
      now == plugins[r.p]
      before == r.pre.plugins[r.p]
  IN  /\ r.val = r.prev.val
      /\ r.made = 0
      /\ now.created = before.created
      /\ instanceWrappers(now) = instanceWrappers(before)
      /\ now.instanceNum = before.instanceNum
      /\ now.instanceWrappersIdx = before.instanceWrappersIdx

\* C2 as stated: whatever the first EnsureInstanceNum(n) achieved, a second
\* EnsureInstanceNum(n) right after it returns the same count, creates no
\* instance and changes nothing.
C2_Idempotent == \A t \in Threads : SecondEnsure(t) => ChangedNothing(t)

\* C2, amended: the second EnsureInstanceNum(n) changes nothing when n <= 0 or
\* the first call returned n; when the first call's growth fell short
\* (it returned c < n), the second call tries again: it creates at most n - c
\* instances, appends them behind the ones there, returns the new count and
\* leaves the cursor alone.
C2_IdempotentOrRetry ==
  \A t \in Threads :
    SecondEnsure(t) =>
      LET r == thr[t]
          now == plugins[r.p]
          before == r.pre.plugins[r.p]
      IN  IF r.num <= 0 \/ r.prev.val = r.num
            THEN ChangedNothing(t)
            ELSE /\ r.prev.val < r.num
                 /\ r.made <= r.num - r.prev.val
                 /\ r.val = r.prev.val + r.made
                 /\ instanceWrappers(now) = instanceWrappers(before) \o r.newInstance
                 /\ now.instanceNum = before.instanceNum + r.made
                 /\ now.instanceWrappersIdx = before.instanceWrappersIdx

\* the first call grew the pool to its target and the second has returned
C2_Witness ==
  \E t \in Threads :
    /\ SecondEnsure(t)
    /\ thr[t].prev.made > 0
    /\ thr[t].prev.val = thr[t].num

\* thread t has returned from AddOrUpdateWasm for a name that was registered
\* when the call began
UpdatedRegistered(t) ==
  /\ thr[t].pc = "done"
  /\ thr[t].op = "AddOrUpdateWasm"
  /\ thr[t].pre.pluginMap[thr[t].name] # 0

\* the wrapper registered under the call's name when the call of t began
WrapperBefore(t) == thr[t].pre.pluginMap[thr[t].name]

\* the config that wrapper stored when the call began
StoredBefore(t) == thr[t].pre.wrappers[WrapperBefore(t)].config

\* the state is as it was when the call of thread t began
SameAsBefore(t) ==
  /\ pluginMap = thr[t].pre.pluginMap
  /\ wrappers = thr[t].pre.wrappers
  /\ plugins = thr[t].pre.plugins

\* C3: AddOrUpdateWasm with the very config the wrapper of that name stores
\* builds no plugin and no module, creates no instance, notifies no observer
\* and leaves the wrapper's config and plugin and the plugin's instance list,
\* cursor and occupancy as they were.
C3_SameConfigNoop ==
  \A t \in Threads :
    (UpdatedRegistered(t) /\ thr[t].config = StoredBefore(t))
    => /\ thr[t].built = 0
       /\ thr[t].modules = 0
       /\ thr[t].made = 0
       /\ thr[t].events = <<>>
       /\ SameAsBefore(t)

\* the same config has been applied to a wrapper that has an observer
C3_Witness ==
  \E t \in Threads :
    /\ UpdatedRegistered(t)
    /\ thr[t].config = StoredBefore(t)
    /\ wrappers[WrapperBefore(t)].pluginHandlers # <<>>

\* the engine, the path or the url of config a is not that of config b
VmChanged(a, b) ==
  \/ a.VmConfig[1].Engine # b.VmConfig[1].Engine
  \/ a.VmConfig[1].Path # b.VmConfig[1].Path
  \/ a.VmConfig[1].Url # b.VmConfig[1].Url

\* C4: AddOrUpdateWasm on a registered name with a config (carrying a
\* VmConfig) that differs from the stored one calls NewWasmPlugin if and only
\* if Engine, Path or Url differs; a plugin so built is a new object with a
\* new module and becomes the active one; otherwise no module is created, the
\* active plugin is the same object and nothing but its instance list and
\* count has changed.
C4_ReuseOrRebuild ==
  \A t \in Threads :
    (/\ UpdatedRegistered(t)
     /\ thr[t].config # StoredBefore(t)
     /\ thr[t].config.VmConfig # <<>>
     /\ StoredBefore(t).VmConfig # <<>>)
    => LET r == thr[t]
           w == WrapperBefore(t)
           p == r.pre.wrappers[w].plugin
       IN  /\ (r.built = 1) <=> VmChanged(r.config, StoredBefore(t))
           /\ (r.built = 1 /\ r.log = "update wasm plugin")
              => /\ r.modules = 1
                 /\ wrappers[w].plugin = Len(r.pre.plugins) + 1
                 /\ Len(plugins) = Len(r.pre.plugins) + 1
           /\ r.built = 0
              => /\ r.modules = 0
                 /\ wrappers[w].plugin = p
                 /\ plugins = [r.pre.plugins EXCEPT
                                 ![p].arr = plugins[p].arr,
                                 ![p].len = plugins[p].len,
                                 ![p].instanceNum = plugins[p].instanceNum,
                                 ![p].created = plugins[p].created]

\* a config with another engine has replaced the plugin of a registered name
C4_Witness ==
  \E t \in Threads :
    /\ UpdatedRegistered(t)
    /\ thr[t].config.VmConfig # <<>>
    /\ VmChanged(thr[t].config, StoredBefore(t))
    /\ thr[t].built = 1
    /\ wrappers[WrapperBefore(t)].plugin = Len(thr[t].pre.plugins) + 1

\* where the events of a kind about plugin p stand in a call's record
Positions(events, kind, p) ==
  { i \in 1..Len(events) : events[i].kind = kind /\ events[i].plugin = p }

\* the call of thread t has published a new plugin in its wrapper
Swaps(t) ==
  /\ thr[t].op \in {"Update", "AddOrUpdateWasm"}
  /\ Positions(thr[t].events, "publish", thr[t].plugin) # {}

\* C5: in a call that swaps the plugin old for the plugin new, every
\* OnPluginStart(new) comes before the publication of new, the publication
\* before every OnPluginDestroy(old) and every OnPluginDestroy(old) before
\* old.Clear(); when the call has returned every observer has got
\* OnPluginStart(new) and later OnPluginDestroy(old), and old was cleared once.
C5_SwapOrder ==
  \A t \in Threads :
    Swaps(t) =>
      LET e == thr[t].events
          new == thr[t].plugin
          old == thr[t].oldPlugin
          starts == Positions(e, "OnPluginStart", new)
          pubs == Positions(e, "publish", new)
          destroys == Positions(e, "OnPluginDestroy", old)
          clears == Positions(e, "Clear", old)
      IN  /\ new # old
          /\ \A i \in starts, j \in pubs : i < j
          /\ \A i \in pubs, j \in destroys : i < j
          /\ \A i \in destroys, j \in clears : i < j
          /\ \A i \in pubs, j \in clears : i < j
          /\ thr[t].pc = "done"
             => /\ wrappers[thr[t].w].plugin = new
                /\ Cardinality(pubs) = 1
                /\ Cardinality(clears) = 1
                /\ \A h \in Range(wrappers[thr[t].w].pluginHandlers) :
                     \E i \in starts, j \in destroys :
                       e[i].h = h /\ e[j].h = h /\ i < j

\* a swap has returned in a wrapper that has an observer
C5_Witness ==
  \E t \in Threads :
    /\ Swaps(t)
    /\ thr[t].pc = "done"
    /\ wrappers[thr[t].w].pluginHandlers # <<>>

\* thread t has returned from UninstallWasmPluginByName
Uninstalled(t) == thr[t].pc = "done" /\ thr[t].op = "UninstallWasmPluginByName"

\* C6: UninstallWasmPluginByName of a name with no entry returns
\* ErrPluginNotFound and leaves the registry and its wrappers as they were; of
\* a registered name it returns nil, GetWasmPluginWrapperByName then finds
\* nothing under the name, and every other name has the entry it had.
C6_Uninstall ==
  \A t \in Threads :
    Uninstalled(t) =>
      IF thr[t].pre.pluginMap[thr[t].name] = 0
        THEN /\ thr[t].ret = ErrPluginNotFound
             /\ pluginMap = thr[t].pre.pluginMap
             /\ wrappers = thr[t].pre.wrappers
        ELSE /\ thr[t].ret = NoError
             /\ GetWasmPluginWrapperByName(pluginMap, thr[t].name) = 0
             /\ \A n \in PluginNames \ {thr[t].name} :
                  pluginMap[n] = thr[t].pre.pluginMap[n]
             /\ wrappers = thr[t].pre.wrappers

\* a registered name has been uninstalled while another name is registered
C6_Witness ==
  \E t \in Threads :
    /\ Uninstalled(t)
    /\ thr[t].pre.pluginMap[thr[t].name] # 0
    /\ \E n \in PluginNames \ {thr[t].name} : pluginMap[n] # 0

\* every registry entry holds a wrapper of that name
KeysMatch ==
  \A k \in PluginNames :
    pluginMap[k] # 0 => wrappers[pluginMap[k]].config.PluginName = k

\* no step changes the name in a wrapper's config
NamesKept ==
  \A w \in 1..Len(wrappers) :
    wrappers'[w].config.PluginName = wrappers[w].config.PluginName

\* an Update with the empty name or with a name that is not the wrapper's has
\* changed nothing and notified nobody
RejectedUpdateIsNoop ==
  \A t \in Threads :
    (/\ thr[t].pc = "done"
     /\ thr[t].op = "Update"
     /\ \/ thr[t].config.PluginName = ""
        \/ thr[t].config.PluginName # thr[t].pre.wrappers[thr[t].w].config.PluginName)
    => /\ SameAsBefore(t)
       /\ thr[t].events = <<>>

\* C8: every registry entry under key k holds a wrapper whose config has the
\* name k, no step changes the name in a wrapper's config, and an Update with
\* an empty or different name changes neither config nor plugin and notifies
\* no observer.
C8_NameIdentity == [](KeysMatch /\ RejectedUpdateIsNoop) /\ [][NamesKept]_vars

\* Update with the name "b" has returned on the wrapper of another name that
\* has an observer
C8_Witness ==
  \E t \in Threads :
    /\ thr[t].pc = "done"
    /\ thr[t].op = "Update"
    /\ thr[t].config.PluginName = "b"
    /\ wrappers[thr[t].w].config.PluginName # "b"
    /\ wrappers[thr[t].w].pluginHandlers # <<>>

\* AddOrUpdateWasm has returned after one of its failures
Failed(t) ==
  /\ thr[t].pc = "done"
  /\ thr[t].op = "AddOrUpdateWasm"
  /\ thr[t].log \in {"empty plugin name", "fail to create wasm plugin",
                     "fail to update wasm instance num"}

\* plugin p can serve: it has at least one instance and no empty slot
Usable(p) ==
  /\ p # 0
  /\ plugins[p].instanceNum >= 1
  /\ plugins[p].len >= 1
  /\ \A i \in 1..plugins[p].len : plugins[p].arr[i] # 0

\* C10: a failed AddOrUpdateWasm leaves the registry with the entries it had,
\* every wrapper with its config and plugin, every plugin with its instances,
\* and has notified no observer; every registry entry has a usable plugin.
C10_FailureAtomic ==
  /\ \A t \in Threads : Failed(t) => SameAsBefore(t) /\ thr[t].events = <<>>
  /\ \A k \in PluginNames : pluginMap[k] # 0 => Usable(wrappers[pluginMap[k]].plugin)

\* the rebuild of a registered plugin that has an observer has failed
C10_Witness ==
  \E t \in Threads :
    /\ Failed(t)
    /\ thr[t].pre.pluginMap[thr[t].name] # 0
    /\ thr[t].built = 1
    /\ wrappers[WrapperBefore(t)].pluginHandlers # <<>>

\* every caller has given back what it took, and none is inside GetInstance
AllReleased ==
  \A t \in Threads : thr[t].held = <<>> /\ thr[t].pc \in {"idle", "done", "off"}

\* Serving in a state: no call has panicked, a GetInstance under way has an
\* index inside the list, and when all is released the occupancy is zero.
ServeLaw ==
  /\ ~panicked
  /\ \A t \in Threads :
       thr[t].pc \in {"G_load", "G_store"}
       => thr[t].idx \in 0..(plugins[thr[t].p].len - 1)
  /\ AllReleased => \A p \in 1..Len(plugins) : plugins[p].occupy = 0

\* C7 as stated: callers that take and release instances of a plugin at the
\* same time, with no resize, never panic or index outside the list, and the
\* occupancy is zero again when all have released, whatever the cursor is.
C7_ServeSafe == ServeLaw

\* C7, away from the wrap: while the cursor is far below 2^31 - 1 no
\* GetInstance or ReleaseInstance panics or indexes outside the list, and the
\* occupancy is zero again when all callers have released.
C7_ServeSafeBelowWrap == CursorLow => ServeLaw

\* two callers took the same instance of a pool of two or more at the same
\* time, and both have released it
C7_Witness ==
  /\ CursorLow
  /\ AllReleased
  /\ \E p \in 1..Len(plugins) :
       /\ plugins[p].len >= 2
       /\ Len(plugins[p].served) = 2
       /\ plugins[p].served[1] = plugins[p].served[2]

\* an EnsureInstanceNum call on plugin p has begun and not returned
EnsureInProgress(p) ==
  \E t \in Threads :
    /\ thr[t].op = "EnsureInstanceNum"
    /\ thr[t].p = p
    /\ thr[t].pc \in {"E_cmp", "E_shrink", "E_create", "E_append", "E_ret"}

\* C9: whatever EnsureInstanceNum calls two callers make on a constructed
\* plugin at the same time, and however many instance creations fail,
\* instanceNum stays at least 1, no call panics, and whenever no
\* EnsureInstanceNum is in progress the instance list is instanceNum long.
C9_PoolSize ==
  /\ ~panicked
  /\ \A p \in 1..Len(plugins) :
       /\ plugins[p].instanceNum >= 1
       /\ ~EnsureInProgress(p) => plugins[p].len = plugins[p].instanceNum

\* two growths have run at the same time: a call has returned a count above
\* its target, and no EnsureInstanceNum is in progress
C9_Witness ==
  \E t \in Threads :
    /\ thr[t].pc = "done"
    /\ thr[t].op = "EnsureInstanceNum"
    /\ thr[t].num > 0
    /\ thr[t].val > thr[t].num
    /\ ~EnsureInProgress(thr[t].p)

\* no call is in progress
Quiescent == \A t \in Threads : thr[t].pc \in {"idle", "off"}

\* the plugin of the wrapper registered under name n was built from the
\* engine, the path and the url of the config the wrapper stores
Agrees(n) ==
  LET w == wrappers[pluginMap[n]]
  IN  ~VmChanged(w.config, plugins[w.plugin].config)

\* C11: calls of AddOrUpdateWasm on one name take effect one after the other
\* in some order.  Every such order leaves the wrapper with the config of
\* the last call that changed it and with a plugin built from that config's
\* engine, path and url, so when no call is in progress the stored config and
\* the active plugin of every registered wrapper agree on them.
C11_SerialOutcome ==
  Quiescent => \A n \in PluginNames : pluginMap[n] # 0 => Agrees(n)

\* two calls of AddOrUpdateWasm on the registered name "a" are in progress
C11_Witness ==
  /\ pluginMap["a"] # 0
  /\ \A t \in Threads : thr[t].op = "AddOrUpdateWasm" /\ thr[t].pc \notin {"idle", "off", "done"}

\* plugin p is the plugin of a wrapper the registry holds
Active(p) == \E n \in PluginNames : pluginMap[n] # 0 /\ wrappers[pluginMap[n]].plugin = p

\* C12: the plugin of a registered wrapper has not been cleared, no plugin
\* is cleared twice, and when no call is in progress every plugin that has
\* been the plugin of a wrapper and no longer is that of a registered one
\* (it was superseded, or its name was uninstalled) has been cleared once.
C12_Teardown ==
  /\ \A p \in 1..Len(plugins) :
       /\ plugins[p].cleared <= 1
       /\ Active(p) => plugins[p].cleared = 0
  /\ Quiescent =>
       \A p \in 1..Len(plugins) :
         (plugins[p].activated /\ ~Active(p)) => plugins[p].cleared = 1

\* a plugin has been superseded or uninstalled while two callers were at work
C12_Witness ==
  /\ \E p \in 1..Len(plugins) : plugins[p].activated /\ ~Active(p) /\ plugins[p].cleared > 0
  /\ \A t \in Threads : thr[t].pc # "off"

\* the ABI call of thread t has returned
AbiReturned(t) == thr[t].pc = "done" /\ thr[t].op \in AbiCalls

\* C13: an ABI call whose export is absent from the instance returns the
\* error "func <call> not found" (and the code 0) and invokes nothing; one
\* whose export is present invokes that export once with the call's
\* arguments and returns the engine's error as it is (and the code 0), or no
\* error and, for a call that returns a code, the export's 32-bit result.
C13_AbiDispatch ==
  \A t \in Threads :
    AbiReturned(t) =>
      IF thr[t].op \notin thr[t].exports
        THEN /\ thr[t].ret = "func " \o thr[t].op \o " not found"
             /\ thr[t].val = 0
             /\ thr[t].invoked = <<>>
        ELSE /\ Len(thr[t].invoked) = 1
             /\ thr[t].invoked[1].func = thr[t].op
             /\ thr[t].invoked[1].args = thr[t].args
             /\ thr[t].ret = thr[t].invoked[1].out.err
             /\ IF thr[t].ret # NoError \/ thr[t].op \in ErrorOnlyCalls
                  THEN thr[t].val = 0
                  ELSE thr[t].val = thr[t].invoked[1].out.res.value

\* the second or a later ABI call, one that returns a code, has returned the
\* nonzero result of its export
C13_Witness ==
  /\ callsLeft < MaxCalls - 1
  /\ \E t \in Threads :
       /\ AbiReturned(t)
       /\ thr[t].op \in CodeCalls \cap thr[t].exports
       /\ thr[t].ret = NoError
       /\ thr[t].val = MaxInt32
       /\ thr[t].args # <<>>

\* the NewWasmPlugin call of thread t got its module and has returned
ModuleBuilt(t) ==
  /\ thr[t].pc = "done"
  /\ thr[t].op = "NewWasmPlugin"
  /\ thr[t].modules = 1

\* the instance count a config asks for
Wanted(cfg) == IF cfg.InstanceNum <= 0 THEN NumCPU ELSE cfg.InstanceNum

\* C14: a NewWasmPlugin call that got its module attempts exactly as many
\* instance creations as its config asks for.  When at least one succeeds it
\* returns a plugin whose pool holds as many distinct instances as attempts
\* succeeded; when none succeeds it returns ErrInstanceCreate and no plugin.
C14_BestEffort ==
  \A t \in Threads :
    ModuleBuilt(t) =>
      LET made == Cardinality({ i \in DOMAIN thr[t].attempts : thr[t].attempts[i] })
          pl == thr[t].result
      IN  /\ Len(thr[t].attempts) = Wanted(thr[t].config)
          /\ IF made >= 1
               THEN /\ thr[t].ret = NoError
                    /\ pl.instanceNum = made
                    /\ Len(instanceWrappers(pl)) = made
                    /\ Distinct(instanceWrappers(pl))
               ELSE /\ thr[t].ret = ErrInstanceCreate
                    /\ pl = EmptyPlugin(NoConfig)

\* a call for three instances has returned a plugin after exactly one of its
\* attempts failed
C14_Witness ==
  \E t \in Threads :
    /\ ModuleBuilt(t)
    /\ thr[t].config.InstanceNum = 3
    /\ thr[t].ret = NoError
    /\ Cardinality({ i \in DOMAIN thr[t].attempts : ~thr[t].attempts[i] }) = 1

\* Update has run to its end on wrapper w for thread t without a plugin to
\* swap in: a caller's Update with nil or with the wrapper's own plugin and a
\* config of the wrapper's name, or the Update of an AddOrUpdateWasm call
\* that kept the plugin
UpdatedInPlace(t, w) ==
  /\ thr[t].pc = "done"
  /\ thr[t].w = w
  /\ w \in DOMAIN thr[t].pre.wrappers
  /\ \/ /\ thr[t].op = "Update"
        /\ thr[t].config.PluginName # ""
        /\ thr[t].config.PluginName = thr[t].pre.wrappers[w].config.PluginName
        /\ thr[t].plugin \in {0, thr[t].pre.wrappers[w].plugin}
     \/ /\ thr[t].op = "AddOrUpdateWasm"
        /\ thr[t].log = "update wasm plugin"
        /\ thr[t].built = 0

\* C15: when Update is given no plugin, or the plugin the wrapper has, every
\* registered observer has received OnConfigUpdate(newConfig) and nothing
\* else, the wrapper stores newConfig and the plugin it had, and no plugin
\* has been created or cleared by the call.
C15_UpdateInPlace ==
  \A t \in Threads : \A w \in DOMAIN wrappers :
    UpdatedInPlace(t, w) =>
      LET before == thr[t].pre.wrappers[w]
      IN  /\ thr[t].events = [i \in 1..Len(before.pluginHandlers) |->
                                [kind |-> "OnConfigUpdate", h |-> before.pluginHandlers[i],
                                 config |-> thr[t].config, plugin |-> 0]]
          /\ wrappers[w].config = thr[t].config
          /\ wrappers[w].plugin = before.plugin
          /\ wrappers[w].pluginHandlers = before.pluginHandlers
          /\ DOMAIN plugins = DOMAIN thr[t].pre.plugins
          /\ \A p \in DOMAIN plugins : plugins[p].cleared = thr[t].pre.plugins[p].cleared

\* a caller's Update with the wrapper's own plugin and a new config has
\* returned on a wrapper that has an observer
C15_Witness ==
  \E t \in Threads : \E w \in DOMAIN wrappers :
    /\ UpdatedInPlace(t, w)
    /\ thr[t].op = "Update"
    /\ thr[t].plugin # 0
    /\ thr[t].config # thr[t].pre.wrappers[w].config
    /\ wrappers[w].pluginHandlers # <<>>

\* thread t has returned from an EnsureInstanceNum call that had to resize
Resized(t) ==
  /\ thr[t].pc = "done"
  /\ thr[t].op = "EnsureInstanceNum"
  /\ thr[t].num > 0
  /\ thr[t].num # thr[t].pre.plugins[thr[t].p].instanceNum

\* C16: EnsureInstanceNum(n) with n below the count leaves the first n
\* instances of the list in their order; with n above the count it leaves
\* the list as it was and appends to it the instances it created, none of
\* which the pool has held before; in both cases the cursor and the
\* occupancy counter are what they were.
C16_ResizeFrame ==
  \A t \in Threads :
    Resized(t) =>
      LET before == thr[t].pre.plugins[thr[t].p]
          old == instanceWrappers(before)
          new == instanceWrappers(plugins[thr[t].p])
      IN  /\ plugins[thr[t].p].instanceWrappersIdx = before.instanceWrappersIdx
          /\ plugins[thr[t].p].occupy = before.occupy
          /\ IF thr[t].num < before.instanceNum
               THEN new = SubSeq(old, 1, thr[t].num)
               ELSE /\ Len(new) = Len(old) + thr[t].made
                    /\ SubSeq(new, 1, Len(old)) = old
                    /\ \A i \in (Len(old) + 1)..Len(new) :
                         new[i] > before.created /\ new[i] \notin Range(old)

\* a pool of three has been cut down while an instance was out and the
\* cursor had moved
C16_Witness ==
  \E t \in Threads :
    /\ Resized(t)
    /\ thr[t].pre.plugins[thr[t].p].instanceNum = 3
    /\ thr[t].num < 3
    /\ plugins[thr[t].p].occupy > 0
    /\ plugins[thr[t].p].instanceWrappersIdx # 0

\* the field of the wrapper that the step a thread at pc takes next reads
\* without holding the wrapper's lock
UnlockedRead(pc) ==
  CASE pc = "R_cfg" -> "config"
    [] pc = "R_start" -> "plugin"
    [] pc \in {"U_cfgNotify", "U_startNotify", "U_destroyNotify"} -> "pluginHandlers"
    [] OTHER -> "none"

\* the field of the wrapper that the step a thread at pc takes next writes,
\* holding the lock in write mode
LockedWrite(pc) ==
  CASE pc = "U_setConfig" -> "config"
    [] pc = "U_setPlugin" -> "plugin"
    [] OTHER -> "none"

\* C17: every read of a wrapper's config, plugin or handler list is made
\* with the wrapper's lock held, so no thread is about to read one of these
\* fields without the lock while another thread is about to write it.
C17_LockDiscipline ==
  \A t, u \in Threads :
    (t # u /\ thr[t].w # 0 /\ thr[t].w = thr[u].w /\ LockedWrite(thr[u].pc) # "none")
    => UnlockedRead(thr[t].pc) # LockedWrite(thr[u].pc)

\* RegisterPluginHandler and Update are at work on one wrapper
C17_Witness ==
  \E t, u \in Threads :
    /\ thr[t].op = "RegisterPluginHandler" /\ thr[t].pc \in {"R_cfg", "R_start"}
    /\ thr[u].pc \in {"U_cfgNotify", "U_setConfig", "U_startNotify", "U_setPlugin"}
    /\ thr[t].w = thr[u].w

\* C18: with no resize and the cursor far below the wrap, the cursor of a
\* plugin that started at 0 equals the number of GetInstance calls completed
\* on it, whatever their interleaving, and as long as no more calls have
\* completed than the pool has instances they returned different instances.
C18_CursorCounts ==
  CursorLow =>
    \A p \in 1..Len(plugins) :
      /\ plugins[p].instanceWrappersIdx = Len(plugins[p].served)
      /\ Len(plugins[p].served) <= plugins[p].len => Distinct(plugins[p].served)

\* two GetInstance calls on one plugin have both read the cursor and are
\* about to write it back
C18_Witness ==
  /\ CursorLow
  /\ \A t \in Threads : thr[t].pc = "G_store" /\ thr[t].p = 1
  /\ plugins[1].len >= 2

\* C19: of the UninstallWasmPluginByName calls that find a wrapper under a
\* name, one only goes on to delete the entry and clear the plugin, so no two
\* callers are past the Delete of the same wrapper; and the plugin a
\* successful call has cleared has been cleared once and is not the plugin
\* of a registered wrapper.
C19_UninstallAtomic ==
  /\ \A t, u \in Threads :
       (t # u /\ thr[t].pc = "N_clear" /\ thr[u].pc = "N_clear") => thr[t].w # thr[u].w
  /\ \A t \in Threads :
       (Uninstalled(t) /\ thr[t].ret = NoError) =>
         LET p == thr[t].events[1].plugin
         IN  plugins[p].cleared = 1 /\ ~Active(p)

\* two UninstallWasmPluginByName calls on one name are in progress
C19_Witness ==
  \A t \in Threads :
    /\ thr[t].op = "UninstallWasmPluginByName"
    /\ thr[t].name = "a"
    /\ thr[t].pc \in {"N_delete", "N_clear"}

\* thread t is inside a call
InCall(t) == thr[t].pc \notin {"idle", "off", "done", "panic"}

\* thread t waits for the write lock of a plugin that readers hold
Blocked(t) ==
  /\ thr[t].pc \in {"E_shrink", "E_append"}
  /\ Readers(thr[t].p) # {}

\* some thread inside a call can take a step, unless none is inside one
NoDeadlock ==
  (\E t \in Threads : InCall(t)) => (\E t \in Threads : InCall(t) /\ ~Blocked(t))

\* a thread that is not inside GetInstance or Exec holds no read lock
LocksReleased ==
  \A t \in Threads : \A p \in 1..Len(plugins) :
    t \in Readers(p) => (InCall(t) /\ thr[t].op \in {"GetInstance", "Exec"})

\* every call that has begun returns
Returns == \A t \in Threads : InCall(t) ~> (thr[t].pc = "done")

\* C20: with every goroutine that can run being run, every call of
\* AddOrUpdateWasm, UninstallWasmPluginByName, Update, RegisterPluginHandler,
\* GetPlugin, GetConfig, EnsureInstanceNum, GetInstance, ReleaseInstance and
\* Exec that has begun returns; a thread outside a call holds no lock; and in
\* no state are all the threads inside a call waiting for a lock.
C20_NoBlocking == Returns /\ [](NoDeadlock /\ LocksReleased /\ ~panicked)

\* a thread waits for the write lock of a plugin while the other holds it
\* for reading
C20_Witness == \E t \in Threads : Blocked(t)

\* AddOrUpdateWasm has returned to thread t after it registered or updated
\* the wrapper of its name with a config that asks for the default instance
\* count, and none of the instance creations it made failed
DefaultApplied(t) ==
  /\ thr[t].pc = "done"
  /\ thr[t].op = "AddOrUpdateWasm"
  /\ thr[t].ret = NoError
  /\ thr[t].config.InstanceNum <= 0
  /\ thr[t].log \in {"add new wasm plugin", "update wasm plugin"}
  /\ thr[t].built = 1 => thr[t].made = NumCPU
  /\ pluginMap[thr[t].name] # 0

\* the instance count of the plugin registered under the name of t's call
ActiveCount(t) == plugins[wrappers[pluginMap[thr[t].name]].plugin].instanceNum

\* C21 as stated: after AddOrUpdateWasm has applied a config with
\* InstanceNum <= 0 and every instance creation succeeded, the active plugin
\* has NumCPU instances, whether the name was new or registered before.
C21_DefaultParallelism ==
  \A t \in Threads : DefaultApplied(t) => ActiveCount(t) = NumCPU

\* C21, where a plugin is built: after AddOrUpdateWasm has built a plugin from
\* a config with InstanceNum <= 0 (a new name, or a registered one whose
\* engine, path or url changed) and every creation succeeded, the active
\* plugin has NumCPU instances.
C21_DefaultOnBuild ==
  \A t \in Threads :
    (DefaultApplied(t) /\ thr[t].built = 1) => ActiveCount(t) = NumCPU

\* a config with InstanceNum 0 has been applied to a registered name whose
\* plugin was kept
C21_Witness ==
  \E t \in Threads :
    /\ DefaultApplied(t)
    /\ thr[t].built = 0
    /\ thr[t].pre.pluginMap[thr[t].name] # 0

\* C22: every slot of a plugin's instance list, up to its length, holds an
\* instance and not nil, whatever EnsureInstanceNum calls two callers make on
\* the plugin at the same time.
C22_NoNilSlot ==
  \A p \in 1..Len(plugins) :
    \A i \in 1..plugins[p].len : plugins[p].arr[i] # 0

\* two EnsureInstanceNum calls on one plugin are in progress, one of them
\* about to shrink the list
C22_Witness ==
  /\ \A t \in Threads : thr[t].op = "EnsureInstanceNum" /\ thr[t].p = 1
  /\ \E t \in Threads : thr[t].pc = "E_shrink"
  /\ \E t \in Threads : thr[t].pc \in {"E_shrink", "E_append"} /\ thr[t].num # 0

\* AddOrUpdateWasm has returned nil to thread t
AddedOrUpdated(t) ==
  /\ thr[t].pc = "done"
  /\ thr[t].op = "AddOrUpdateWasm"
  /\ thr[t].ret = NoError

\* the wrapper registered under the name of t's call stores the config of
\* the call, and its plugin was built from that config's engine, path and
\* url if the plugin the name had before (if any) was built from those of the
\* config stored then
TookEffect(t) ==
  LET n == thr[t].name
      before == thr[t].pre.wrappers
      w0 == thr[t].pre.pluginMap[n]
  IN  /\ pluginMap[n] # 0
      /\ wrappers[pluginMap[n]].config = thr[t].config
      /\ (w0 = 0 \/ ~VmChanged(before[w0].config, thr[t].pre.plugins[before[w0].plugin].config))
         => Agrees(n)

\* C23 as stated: whenever AddOrUpdateWasm returns nil the requested config
\* has taken effect.
C23_NilMeansApplied ==
  \A t \in Threads : AddedOrUpdated(t) => TookEffect(t)

\* C23, by the way the call ended: the config has taken effect whenever
\* AddOrUpdateWasm returned after registering the name, after Update, or
\* after finding the config equal to the stored one; and whenever it returned
\* an error the registry and the wrappers are as they were.
C23_AppliedUnlessFailed ==
  \A t \in Threads :
    (thr[t].pc = "done" /\ thr[t].op = "AddOrUpdateWasm") =>
      /\ thr[t].log \in {"add new wasm plugin", "update wasm plugin", "same config"}
         => (thr[t].ret = NoError /\ TookEffect(t))
      /\ thr[t].ret # NoError
         => /\ pluginMap = thr[t].pre.pluginMap
            /\ wrappers = thr[t].pre.wrappers

\* AddOrUpdateWasm has returned nil for a registered name after the plugin
\* it had to build could not be built
C23_Witness ==
  \E t \in Threads :
    /\ AddedOrUpdated(t)
    /\ thr[t].pre.pluginMap[thr[t].name] # 0
    /\ thr[t].log = "fail to create wasm plugin"

\* what GetInstance has computed for thread t lies in the pool: the call has
\* not panicked, its index is in [0, pool size) and the instance it took is
\* the one at that index
IndexInPool(t) ==
  /\ thr[t].pc # "panic"
  /\ thr[t].pc \in {"G_load", "G_store", "done"}
     => /\ thr[t].idx \in 0..(plugins[thr[t].p].len - 1)
        /\ thr[t].iw = plugins[thr[t].p].arr[thr[t].idx + 1]
        /\ thr[t].iw # 0

\* C24 as stated: whatever the cursor is, before or after it passes
\* 2^31 - 1, every GetInstance call on a pool of one or more instances
\* computes an index inside the pool and returns an instance of it.
C24_IndexInRange ==
  \A t \in Threads : thr[t].op = "GetInstance" => IndexInPool(t)

\* C24, up to the wrap: as long as no cursor is below zero, every
\* GetInstance call computes an index inside the pool and returns an instance
\* of it, also at the cursor values 2^31 - 2 and 2^31 - 1.
C24_IndexInRangeUntilWrap ==
  (\A p \in 1..Len(plugins) : plugins[p].instanceWrappersIdx >= 0)
  => \A t \in Threads : thr[t].op = "GetInstance" => IndexInPool(t)

\* the cursor of a pool has passed 2^31 - 1 and is below zero
C24_Witness ==
  \E p \in 1..Len(plugins) :
    /\ plugins[p].instanceWrappersIdx < 0
    /\ plugins[p].len >= 2
    /\ Len(plugins[p].served) >= 2

\* thread t is in RegisterPluginHandler: its observer is in the list of
\* wrapper w and has not yet received OnPluginStart from the registration
Registering(t, w) ==
  /\ thr[t].op = "RegisterPluginHandler"
  /\ thr[t].w = w
  /\ thr[t].pc \in {"R_cfg", "R_start"}

\* the Update that thread u runs has called OnPluginStart with its new
\* plugin on observer h before the k-th callback it made
StartedBefore(u, h, k) ==
  \E j \in 1..(k - 1) :
    /\ thr[u].events[j].kind = "OnPluginStart"
    /\ thr[u].events[j].h = h
    /\ thr[u].events[j].plugin = thr[u].plugin

\* no handler list holds nil, and no callback has been made on nil
NilNeverAdded ==
  /\ \A w \in 1..Len(wrappers) :
       \A i \in 1..Len(wrappers[w].pluginHandlers) :
         wrappers[w].pluginHandlers[i] # NilHandler
  /\ \A t \in Threads : \A k \in 1..Len(thr[t].events) :
       thr[t].events[k].kind \in {"OnConfigUpdate", "OnPluginStart", "OnPluginDestroy"}
       => thr[t].events[k].h # NilHandler

\* C25 as stated: an observer that is being registered while an Update
\* swaps plugins, and that the Update calls OnPluginDestroy(old) on, has
\* received OnPluginStart for the new plugin from that Update before; and nil
\* is never added to a handler list or called.
C25_Lifecycle ==
  /\ NilNeverAdded
  /\ \A u, t \in Threads :
       Registering(t, thr[u].w) =>
         \A k \in 1..Len(thr[u].events) :
           (thr[u].events[k].kind = "OnPluginDestroy" /\ thr[u].events[k].h = thr[t].h)
           => StartedBefore(u, thr[t].h, k)

\* C25, the part about nil: nil is never added to a handler list and no
\* callback is made on it.
C25_NilNeverAdded == NilNeverAdded

\* an observer is being registered with a wrapper whose Update has called
\* OnPluginStart on the observers and has not yet stored the new plugin
C25_Witness ==
  \E u, t \in Threads :
    /\ Registering(t, thr[u].w)
    /\ thr[u].pc = "U_setPlugin"

============================================================================
